---- MODULE Spec2Model ----
(***************************************************************************)
(* StelCore (src/core/StelCore.cpp): simulation time and time rate, the    *)
(* observer (stationary or travelling), the GPS sample, the               *)
(* locationChanged signal, the transform matrices and getIsTimeNow.        *)
(*                                                                         *)
(* Numbers.  The code computes in double.  The model is exact:             *)
(*  - a time rate is a rational multiple <<n, d>> (d > 0, lowest terms) of *)
(*    JD_SECOND, the rate "one simulated second per real second";          *)
(*  - a Julian day, or a span of simulated time, is <<day, tick>> with     *)
(*    0 <= tick < TicksPerDay, i.e. day + tick/TicksPerDay days, on a grid *)
(*    of TicksPerSecond steps per simulated second;                        *)
(*  - deltaTime and travel durations are whole seconds;                    *)
(*  - longitudes and latitudes are whole millidegrees.                     *)
(***************************************************************************)
EXTENDS Integers, Sequences, FiniteSets, TLC

VARIABLES
    JDay,             \* StelCore::JDay
    timeSpeed,        \* StelCore::timeSpeed
    position,         \* StelCore::position, the StelObserver in use
    useGPS,           \* StelCore::useGPS
    lastGPSLocation,  \* StelCore::lastGPSLocation (NoLocation for NULL)
    absIsIntegral,    \* which abs() the build resolves at lines 424-425
    matDerivedFrom,   \* what updateTransformMatrices last read: it fixes
                      \* the transform matrices (mat below)
    lastCall,         \* history: the operation that ran last, its arguments
    prevCall,         \* history: the operation that ran before lastCall
    signals,          \* history: locationChanged payloads emitted by lastCall
    journey,          \* history: the last move and the deltaTime ticked since
    budget,           \* history: calls the run may still make
    systemJD,         \* StelUtils::getJDFromSystem(), the real-world time
    staticsReady,     \* getIsTimeNow: its local statics are initialised
    lastJD,           \* getIsTimeNow: static double lastJD
    previousResult,   \* getIsTimeNow: static bool previousResult
    stepKinds,        \* history: granularities of the rate steps made
    frame,            \* what the observer reports of its frame of reference
    selected,         \* StelObjectMgr: the first selected object, if any
    flagTracking      \* StelMovementMgr: the tracking flag

clockVars == <<systemJD, staticsReady, lastJD, previousResult>>
frameVars == <<frame>>
uiVars == <<selected, flagTracking>>

vars == <<JDay, timeSpeed, position, useGPS, lastGPSLocation, absIsIntegral,
          matDerivedFrom, lastCall, prevCall, signals, journey, budget,
          clockVars, stepKinds, frameVars, uiVars>>

(***************************************************************************)
(* Bounds of the model.                                                    *)
(***************************************************************************)
TicksPerSecond == 10000
MaxRateNum == 1000
MaxRateDen == 100
MaxCalls == 3
MaxTimeCalls == 3
MaxRateCalls == 3
MaxObserverCalls == 4
MaxGPSCalls == 3

\* JD_SECOND = 0.000011574074074074074074 is 1/86400 day.
SecondsPerDay == 86400
TicksPerDay == SecondsPerDay * TicksPerSecond

(***************************************************************************)
(* Rationals <<n, d>> for the time rate.                                   *)
(***************************************************************************)
Abs(x) == IF x < 0 THEN -x ELSE x

RECURSIVE GCD(_, _)
GCD(a, b) == IF b = 0 THEN a ELSE GCD(b, a % b)

Rat(n, d) ==
    LET g == GCD(Abs(n), d)
    IN  <<n \div g, d \div g>>

RatLt(a, b) == a[1] * b[2] < b[1] * a[2]
RatLe(a, b) == a[1] * b[2] <= b[1] * a[2]
RatNeg(a) == <<-a[1], a[2]>>
RatMul(a, k) == Rat(a[1] * k, a[2])
RatDiv(a, k) == Rat(a[1], a[2] * k)
RatZero == <<0, 1>>

JD_SECOND == <<1, 1>>
JD_MINUTE == <<60, 1>>
JD_HOUR == <<3600, 1>>
JD_DAY == <<SecondsPerDay, 1>>

(***************************************************************************)
(* Julian days and spans <<day, tick>>.                                    *)
(***************************************************************************)
DurZero == <<0, 0>>

DurAdd(a, b) ==
    LET t == a[2] + b[2]
    IN  IF t >= TicksPerDay THEN <<a[1] + b[1] + 1, t - TicksPerDay>>
                            ELSE <<a[1] + b[1], t>>

DurNeg(a) == IF a[2] = 0 THEN <<-a[1], 0>> ELSE <<-a[1] - 1, TicksPerDay - a[2]>>

DurLt(a, b) == a[1] < b[1] \/ (a[1] = b[1] /\ a[2] < b[2])

RECURSIVE DurMul(_, _)
DurMul(a, k) ==
    IF k = 0 \/ a = DurZero THEN DurZero
    ELSE LET h == DurMul(a, k \div 2)
             dbl == DurAdd(h, h)
         IN  IF k % 2 = 1 THEN DurAdd(dbl, a) ELSE dbl

Days(n) == <<n, 0>>

\* timeSpeed*deltaTime for a rate s >= 0: simulated time elapsed in dt seconds.
SpanOfPositive(s, dt) ==
    LET q == s[1] \div s[2]
        r == s[1] % s[2]
        whole == DurMul(<<q \div SecondsPerDay, (q % SecondsPerDay) * TicksPerSecond>>, dt)
        fsec == (r * dt) \div s[2]
        frem == (r * dt) % s[2]
        frac == <<fsec \div SecondsPerDay,
                  (fsec % SecondsPerDay) * TicksPerSecond + (frem * TicksPerSecond) \div s[2]>>
    IN  DurAdd(whole, frac)

\* Mutant: deltaTime taken as a fraction of a real day, not as seconds.
Span_PerRealDay(s, dt) ==
    IF s[1] >= 0 THEN SpanOfPositive(RatDiv(s, SecondsPerDay), dt)
                 ELSE DurNeg(SpanOfPositive(RatDiv(RatNeg(s), SecondsPerDay), dt))

\* timeSpeed*deltaTime (line 613), rounded toward zero onto the grid.
Span(s, dt) ==
    IF s[1] >= 0 THEN SpanOfPositive(s, dt)
                 ELSE DurNeg(SpanOfPositive(RatNeg(s), dt))

\* 38245309.499988 and -34803211.500012: 0.499988 day is 43198.9632 s.
T_MAX == <<38245309, 43198 * TicksPerSecond + (9632 * TicksPerSecond) \div 10000>>
T_MIN == <<-34803212, 43198 * TicksPerSecond + (9632 * TicksPerSecond) \div 10000>>
J2000 == <<2451545, 0>>

InRange(jd) == ~DurLt(T_MAX, jd) /\ ~DurLt(jd, T_MIN)

\* Lines 616-617: "Fix time limits to -100000 to +100000 to prevent bugs".
ClampJDay(jd) ==
    LET hi == IF DurLt(T_MAX, jd) THEN T_MAX ELSE jd
    IN  IF DurLt(hi, T_MIN) THEN T_MIN ELSE hi

(***************************************************************************)
(* The four rate steps, on a rate s (lines 567-606).                       *)
(***************************************************************************)
\* Mutant: s <= -JD_SECOND where line 571 has s < -JD_SECOND.
increaseTimeSpeedOf_Inclusive(s) ==
    IF RatLe(JD_SECOND, s) THEN RatMul(s, 10)
    ELSE IF RatLe(s, RatNeg(JD_SECOND)) THEN RatDiv(s, 10)
    ELSE IF RatLe(RatZero, s) /\ RatLt(s, JD_SECOND) THEN JD_SECOND
    ELSE IF RatLe(RatNeg(JD_SECOND), s) /\ RatLt(s, RatZero) THEN RatZero
    ELSE s

increaseTimeSpeedOf(s) ==
    IF RatLe(JD_SECOND, s) THEN RatMul(s, 10)
    ELSE IF RatLt(s, RatNeg(JD_SECOND)) THEN RatDiv(s, 10)
    ELSE IF RatLe(RatZero, s) /\ RatLt(s, JD_SECOND) THEN JD_SECOND
    ELSE IF RatLe(RatNeg(JD_SECOND), s) /\ RatLt(s, RatZero) THEN RatZero
    ELSE s

\* Mutant: s >= JD_SECOND where line 581 has s > JD_SECOND.
decreaseTimeSpeedOf_Inclusive(s) ==
    IF RatLe(JD_SECOND, s) THEN RatDiv(s, 10)
    ELSE IF RatLe(s, RatNeg(JD_SECOND)) THEN RatMul(s, 10)
    ELSE IF RatLt(RatNeg(JD_SECOND), s) /\ RatLe(s, RatZero) THEN RatNeg(JD_SECOND)
    ELSE IF RatLt(RatZero, s) /\ RatLe(s, JD_SECOND) THEN RatZero
    ELSE s

decreaseTimeSpeedOf(s) ==
    IF RatLt(JD_SECOND, s) THEN RatDiv(s, 10)
    ELSE IF RatLe(s, RatNeg(JD_SECOND)) THEN RatMul(s, 10)
    ELSE IF RatLt(RatNeg(JD_SECOND), s) /\ RatLe(s, RatZero) THEN RatNeg(JD_SECOND)
    ELSE IF RatLt(RatZero, s) /\ RatLe(s, JD_SECOND) THEN RatZero
    ELSE s

\* Mutant: s <= -JD_SECOND in place of s < -JD_SECOND at line 592.
increaseTimeSpeedLessOf_Inclusive(s) ==
    IF RatLe(JD_SECOND, s) THEN RatMul(s, 2)
    ELSE IF RatLe(s, RatNeg(JD_SECOND)) THEN RatDiv(s, 2)
    ELSE IF RatLe(RatZero, s) THEN JD_SECOND
    ELSE RatZero

increaseTimeSpeedLessOf(s) ==
    IF RatLe(JD_SECOND, s) THEN RatMul(s, 2)
    ELSE IF RatLt(s, RatNeg(JD_SECOND)) THEN RatDiv(s, 2)
    ELSE IF RatLe(RatZero, s) /\ RatLt(s, JD_SECOND) THEN JD_SECOND
    ELSE IF RatLe(RatNeg(JD_SECOND), s) /\ RatLt(s, RatZero) THEN RatZero
    ELSE s

\* Mutant: the fine step divides by 10, as the coarse one does.
decreaseTimeSpeedLessOf_Tenth(s) ==
    IF RatLt(JD_SECOND, s) THEN RatDiv(s, 10)
    ELSE IF RatLe(s, RatNeg(JD_SECOND)) THEN RatMul(s, 2)
    ELSE IF RatLt(RatNeg(JD_SECOND), s) /\ RatLe(s, RatZero) THEN RatNeg(JD_SECOND)
    ELSE IF RatLt(RatZero, s) /\ RatLe(s, JD_SECOND) THEN RatZero
    ELSE s

decreaseTimeSpeedLessOf(s) ==
    IF RatLt(JD_SECOND, s) THEN RatDiv(s, 2)
    ELSE IF RatLe(s, RatNeg(JD_SECOND)) THEN RatMul(s, 2)
    ELSE IF RatLt(RatNeg(JD_SECOND), s) /\ RatLe(s, RatZero) THEN RatNeg(JD_SECOND)
    ELSE IF RatLt(RatZero, s) /\ RatLe(s, JD_SECOND) THEN RatZero
    ELSE s

RateInBounds(s) == Abs(s[1]) <= MaxRateNum * s[2] /\ s[2] <= MaxRateDen

(***************************************************************************)
(* Locations and the observer.  StelLocation, StelObserver and             *)
(* SpaceShipObserver are declared outside StelCore.cpp; what StelCore      *)
(* needs of them is modelled here from their documented behaviour.         *)
(***************************************************************************)
NoLocation == [planetName |-> "", name |-> "", state |-> "",
               latitude |-> 0, longitude |-> 0, altitude |-> 0, valid |-> FALSE]

Loc(planet, name, state, lat, lon, alt) ==
    [planetName |-> planet, name |-> name, state |-> state,
     latitude |-> lat, longitude |-> lon, altitude |-> alt, valid |-> TRUE]

Paris == Loc("Earth", "Paris", "France", 48850, 2350, 35)
Quito == Loc("Earth", "Quito", "Ecuador", -220, -78510, 2850)
Olympus == Loc("Mars", "Olympus Mons", "", 18650, -133800, 0)
SolarSystem == Loc("Solar System StelObserver", "Solar System Observer", "", 0, 0, 0)
Locations == {Paris, Quito, Olympus, SolarSystem}
DefaultLocation == Paris

\* A stationary observer at loc.
StelObserver(loc) == [type |-> "StelObserver", currentLocation |-> loc]

\* An observer travelling from startLoc to target in transitSeconds.
SpaceShipObserver(startLoc, target, transitSeconds) ==
    [type |-> "SpaceShipObserver", moveStartLocation |-> startLoc,
     moveTargetLocation |-> target, transitSeconds |-> transitSeconds,
     elapsed |-> 0]

Min(a, b) == IF a < b THEN a ELSE b

Lerp(a, b, num, den) == a + ((b - a) * num) \div den

isTraveling(obs) ==
    obs.type = "SpaceShipObserver" /\ obs.elapsed < obs.transitSeconds

isObserverLifeOver(obs) ==
    obs.type = "SpaceShipObserver" /\ obs.elapsed >= obs.transitSeconds

getNextObserver(obs) == StelObserver(obs.moveTargetLocation)

\* Where the observer is: the location itself when stationary or arrived,
\* an interpolated point with a generated name while travelling.
getCurrentLocation(obs) ==
    IF obs.type = "StelObserver" THEN obs.currentLocation
    ELSE IF obs.elapsed >= obs.transitSeconds THEN obs.moveTargetLocation
    ELSE LET a == obs.moveStartLocation
             b == obs.moveTargetLocation
             e == obs.elapsed
             d == obs.transitSeconds
         IN  Loc(IF a.planetName = b.planetName THEN b.planetName ELSE "SpaceShip",
                 a.name \o " -> " \o b.name, "",
                 Lerp(a.latitude, b.latitude, e, d),
                 Lerp(a.longitude, b.longitude, e, d),
                 Lerp(a.altitude, b.altitude, e, d))

\* StelObserver::update / SpaceShipObserver::update.
ObserverUpdate(obs, deltaTime) ==
    IF obs.type = "StelObserver" THEN obs
    ELSE [obs EXCEPT !.elapsed = Min(obs.transitSeconds, obs.elapsed + deltaTime)]

getHomePlanetName(obs) == getCurrentLocation(obs).planetName

\* Planet::getSiderealDay of the ephemeris, in days <<day, tick>>.
SiderealDay(planet) ==
    IF planet = "Earth" THEN <<0, (TicksPerDay \div 100000) * 99727>>
    ELSE IF planet = "Mars" THEN <<1, (TicksPerDay \div 100000) * 2596>>
    ELSE <<1, 0>>

\* Default arguments of moveObserverTo (declared in StelCore.hpp).
DefaultDuration == 0
DefaultDurationIfPlanetChange == 0

\* StelCore::setJDay.
setJDayOf(jd) == ClampJDay(jd)

(***************************************************************************)
(* StelCore::moveObserverTo, as a function of the observer (lines 480-502).*)
(***************************************************************************)
\* Mutant: the planet comparison of line 482 left out.
MoveDuration_IgnoresPlanet(obs, target, duration, durationIfPlanetChange) == duration

\* Mutant: the two durations of line 482 exchanged.
MoveDuration_Exchanged(obs, target, duration, durationIfPlanetChange) ==
    IF getCurrentLocation(obs).planetName = target.planetName
    THEN durationIfPlanetChange ELSE duration

MoveDuration(obs, target, duration, durationIfPlanetChange) ==
    IF getCurrentLocation(obs).planetName = target.planetName
    THEN duration ELSE durationIfPlanetChange

\* Mutant: the test d > 0 of line 483 left out.
moveObserverToOf_NoSignTest(obs, target, duration, durationIfPlanetChange) ==
    LET d == MoveDuration(obs, target, duration, durationIfPlanetChange)
        curLoc == IF isTraveling(obs)
                  THEN [getCurrentLocation(obs) EXCEPT !.name = "."]
                  ELSE getCurrentLocation(obs)
    IN  ObserverUpdate(SpaceShipObserver(curLoc, target, d), 0)

\* Mutant: the in-flight location keeps its generated name (lines 486-489
\* left out).
moveObserverToOf_KeepsName(obs, target, duration, durationIfPlanetChange) ==
    LET d == MoveDuration(obs, target, duration, durationIfPlanetChange)
    IN  IF d > 0
        THEN ObserverUpdate(SpaceShipObserver(getCurrentLocation(obs), target, d), 0)
        ELSE StelObserver(target)

moveObserverToOf(obs, target, duration, durationIfPlanetChange) ==
    LET d == MoveDuration(obs, target, duration, durationIfPlanetChange)
        curLoc == IF isTraveling(obs)
                  THEN [getCurrentLocation(obs) EXCEPT !.name = "."]
                  ELSE getCurrentLocation(obs)
    IN  IF d > 0 THEN ObserverUpdate(SpaceShipObserver(curLoc, target, d), 0)
                 ELSE StelObserver(target)

\* locationChanged emitted by one moveObserverTo (line 501).
\* Mutant: the emit of line 501 left out.
moveObserverToSignals_Silent(target) == <<>>

moveObserverToSignals(target) == <<target>>

(***************************************************************************)
(* StelCore::updateTime (lines 611-637).                                   *)
(***************************************************************************)
\* Mutant: the upper limit of line 616 left out.
updateTimeJDay_NoUpperLimit(jd, s, deltaTime) ==
    LET t == DurAdd(jd, Span(s, deltaTime))
    IN  IF DurLt(t, T_MIN) THEN T_MIN ELSE t

\* Mutant: a zero rate runs at JD_SECOND.
updateTimeJDay_NeverPaused(jd, s, deltaTime) ==
    ClampJDay(DurAdd(jd, Span(IF s = RatZero THEN JD_SECOND ELSE s, deltaTime)))

updateTimeJDay(jd, s, deltaTime) == ClampJDay(DurAdd(jd, Span(s, deltaTime)))

\* Mutant: the observer advances first and is replaced in the same tick.
updateTimePosition_ReplacesAfterUpdate(obs, deltaTime) ==
    LET u == ObserverUpdate(obs, deltaTime)
    IN  IF isObserverLifeOver(u) THEN getNextObserver(u) ELSE u

\* Mutant: a life-over observer is never replaced (lines 619-631 left out).
updateTimePosition_NeverReplaces(obs, deltaTime) == ObserverUpdate(obs, deltaTime)

\* What StelObjectMgr has selected: nothing, or its first selected object.
NoSelection == [kind |-> "none", englishName |-> ""]
Object(kind, englishName) == [kind |-> kind, englishName |-> englishName]

\* Lines 619-627: the selection is dropped when the observer being replaced
\* is on the selected planet.
updateTimeSelection(obs, sel) ==
    IF isObserverLifeOver(obs) /\ sel.kind = "Planet"
       /\ sel.englishName = getHomePlanetName(obs)
    THEN NoSelection ELSE sel

\* Mutant: the observer advances only while the time runs forward.
updateTimePosition_FollowsTimeRate(obs, deltaTime) ==
    ObserverUpdate(IF isObserverLifeOver(obs) THEN getNextObserver(obs) ELSE obs,
                   IF RatLt(RatZero, timeSpeed) THEN deltaTime ELSE 0)

updateTimePosition(obs, deltaTime) ==
    ObserverUpdate(IF isObserverLifeOver(obs) THEN getNextObserver(obs) ELSE obs,
                   deltaTime)

\* Mutant: the matrices are recomputed before updateTime has run, from the
\* observer and the time the tick started with.
updateTransformMatricesOf_BeforeUpdateTime(obs, jd, f) ==
    [position |-> position, JDay |-> JDay, frame |-> f]

\* StelCore::updateTransformMatrices reads position and JDay, and through
\* position the observer's frame of reference f (lines 369-388).
updateTransformMatricesOf(obs, jd, f) == [position |-> obs, JDay |-> jd, frame |-> f]

(***************************************************************************)
(* The matrices of StelCore::updateTransformMatrices (lines 369-388).      *)
(* A Mat4d is a tuple of four rows; its entries are integers here, and the *)
(* rotations are exact orthonormal ones (quarter turns and axis            *)
(* permutations), so that products are computed without rounding.          *)
(***************************************************************************)
Identity4 == <<<<1, 0, 0, 0>>, <<0, 1, 0, 0>>, <<0, 0, 1, 0>>, <<0, 0, 0, 1>>>>

\* Mat4d::operator*.
MatMul(A, B) ==
    LET e(i, j) == A[i][1] * B[1][j] + A[i][2] * B[2][j] + A[i][3] * B[3][j]
                   + A[i][4] * B[4][j]
        row(i) == <<e(i, 1), e(i, 2), e(i, 3), e(i, 4)>>
    IN  <<row(1), row(2), row(3), row(4)>>

\* Mat4d::transpose.
Transpose(A) ==
    LET col(j) == <<A[1][j], A[2][j], A[3][j], A[4][j]>>
    IN  <<col(1), col(2), col(3), col(4)>>

\* Mat4d::translation.
Translation(v) ==
    <<<<1, 0, 0, v[1]>>, <<0, 1, 0, v[2]>>, <<0, 0, 1, v[3]>>, <<0, 0, 0, 1>>>>

VecNeg(v) == <<-v[1], -v[2], -v[3]>>

\* A matrix applied to a point <<x, y, z>>.
Apply(A, p) ==
    LET e(i) == A[i][1] * p[1] + A[i][2] * p[2] + A[i][3] * p[3] + A[i][4]
    IN  <<e(1), e(2), e(3)>>

\* Quarter turns about x and z, and the cyclic permutation of the axes.
XRotation == <<<<1, 0, 0, 0>>, <<0, 0, -1, 0>>, <<0, 1, 0, 0>>, <<0, 0, 0, 1>>>>
ZRotation == <<<<0, -1, 0, 0>>, <<1, 0, 0, 0>>, <<0, 0, 1, 0>>, <<0, 0, 0, 1>>>>
AxisCycle == <<<<0, 0, 1, 0>>, <<1, 0, 0, 0>>, <<0, 1, 0, 0>>, <<0, 0, 0, 1>>>>

\* Lines 44-45: the rotation of the ecliptic, a quarter turn here in place
\* of the obliquity 23.4392803 degrees.
matJ2000ToVsop87 == MatMul(Transpose(XRotation), ZRotation)
matVsop87ToJ2000 == Transpose(matJ2000ToVsop87)

\* What position-> reports at lines 371-387: getRotAltAzToEquatorial(JDay),
\* getRotEquatorialToVsop87(), getCenterVsop87Pos(), getDistanceFromCenter().
Frame(rotAE, rotEV, center, dist) ==
    [rotAltAzToEquatorial |-> rotAE, rotEquatorialToVsop87 |-> rotEV,
     centerVsop87Pos |-> center, distanceFromCenter |-> dist]

DefaultFrame == Frame(ZRotation, XRotation, <<1, 0, 0>>, 1)

\* Line 381.
TmpOf(f) ==
    MatMul(MatMul(matJ2000ToVsop87, MatMul(matVsop87ToJ2000, f.rotEquatorialToVsop87)),
           f.rotAltAzToEquatorial)

\* Lines 383-384.
matAltAzToHeliocentricEclipticOf(tmp, center, dist) ==
    MatMul(MatMul(Translation(center), tmp), Translation(<<0, 0, dist>>))

\* Mutant: tmp in place of its transpose.
matHeliocentricEclipticToAltAzOf_NotTransposed(tmp, center, dist) ==
    MatMul(MatMul(Translation(<<0, 0, -dist>>), tmp), Translation(VecNeg(center)))

\* Lines 386-387.
matHeliocentricEclipticToAltAzOf(tmp, center, dist) ==
    MatMul(MatMul(Translation(<<0, 0, -dist>>), Transpose(tmp)),
           Translation(VecNeg(center)))

\* Lines 371-387.
TransformMatrices(f) ==
    LET altAzToEquinoxEqu == f.rotAltAzToEquatorial
        equinoxEquToAltAz == Transpose(altAzToEquinoxEqu)
        equinoxEquToJ2000 == MatMul(matVsop87ToJ2000, f.rotEquatorialToVsop87)
        j2000ToEquinoxEqu == Transpose(equinoxEquToJ2000)
    IN  [matAltAzToEquinoxEqu |-> altAzToEquinoxEqu,
         matEquinoxEquToAltAz |-> equinoxEquToAltAz,
         matEquinoxEquToJ2000 |-> equinoxEquToJ2000,
         matJ2000ToEquinoxEqu |-> j2000ToEquinoxEqu,
         matJ2000ToAltAz |-> MatMul(equinoxEquToAltAz, j2000ToEquinoxEqu),
         matHeliocentricEclipticToEquinoxEqu |->
             MatMul(MatMul(j2000ToEquinoxEqu, matVsop87ToJ2000),
                    Translation(VecNeg(f.centerVsop87Pos))),
         matAltAzToHeliocentricEcliptic |->
             matAltAzToHeliocentricEclipticOf(TmpOf(f), f.centerVsop87Pos,
                                              f.distanceFromCenter),
         matHeliocentricEclipticToAltAz |->
             matHeliocentricEclipticToAltAzOf(TmpOf(f), f.centerVsop87Pos,
                                              f.distanceFromCenter)]

\* The matrices StelCore holds: those of the last recomputation.
mat == TransformMatrices(matDerivedFrom.frame)

(***************************************************************************)
(* StelCore::setGPSLocation (lines 418-443).                               *)
(***************************************************************************)
GEO_THRESHOLD == 100

\* abs(x) > GEO_THRESHOLD at line 424: ::abs(int) truncates x to whole
\* degrees first, std::abs(double) does not.
AbsExceedsThreshold(x, integral) ==
    IF integral THEN Abs(x) \div 1000 >= 1 ELSE Abs(x) > GEO_THRESHOLD

\* abs(a - b > GEO_THRESHOLD) at line 425: abs of the comparison's result.
AbsOfComparison(a, b) == a - b > GEO_THRESHOLD

\* Mutant: no hysteresis, every sample is taken.
GPSAccepts_Always(last, lon, lat, integral) == TRUE

GPSAccepts(last, lon, lat, integral) ==
    \/ ~last.valid
    \/ AbsExceedsThreshold(last.latitude - lat, integral)
    \/ AbsOfComparison(last.longitude, lon)

\* QString::number(x + .005, 'f', 2) for x in millidegrees: x + .005 rounded
\* to the nearest hundredth (a tie is rounded up here; in double it falls
\* either way, and the samples used are no ties).
Digits2(n) == IF n < 10 THEN "0" \o ToString(n) ELSE ToString(n)
Fixed2(x) ==
    LET h == (x + 5 + 5) \div 10
    IN  (IF h < 0 THEN "-" ELSE "") \o ToString(Abs(h) \div 100) \o "."
        \o Digits2(Abs(h) % 100)

\* if(useGPS) at line 439.
\* Mutant: the move is made whatever useGPS says.
GPSMoves_Always(use) == TRUE

GPSMoves(use) == use

GPSLocation(lon, lat) ==
    Loc("Earth", "GPS " \o Fixed2(lat) \o "," \o Fixed2(lon), "", lat, lon, 0)

(***************************************************************************)
(* Inputs the environment may pass.                                        *)
(***************************************************************************)
DeltaTimes == {0, 1, 4, 16}
LongDeltaTimes == {0, 1, 86400}
DayCounts == {-365, -1, 1, 365}
Durations == {-1, 0, 5}
PlanetChangeDurations == {0, 20}
GPSLongitudes == {2301, 2351, 2451, 3501}
GPSLatitudes == {48791, 48851, 48901, 50001}
NearBounds == {DurAdd(T_MAX, DurNeg(<<0, 2 * TicksPerSecond>>)),
               DurAdd(T_MIN, <<0, 2 * TicksPerSecond>>)}
JDayInputs == {J2000, <<40000000, 0>>, <<-40000000, 0>>} \cup NearBounds
RateInputs == {RatZero, JD_SECOND, RatNeg(JD_SECOND), JD_MINUTE, JD_DAY, RatNeg(JD_DAY)}

RateOps == {"increaseTimeSpeed", "decreaseTimeSpeed",
            "increaseTimeSpeedLess", "decreaseTimeSpeedLess"}
NoCall == [op |-> "none"]

\* Book-keeping common to every call.
CanCall == budget > 0

NoJourney == [active |-> FALSE]

\* A move just made from obs: nothing ticked yet.
JourneyOf(obs, target, duration, durationIfPlanetChange) ==
    [active |-> TRUE, target |-> target, duration |-> duration,
     durationIfPlanetChange |-> durationIfPlanetChange,
     fromStationary |-> obs.type = "StelObserver",
     sameBody |-> getCurrentLocation(obs).planetName = target.planetName,
     acc |-> 0]

Ticked(j, deltaTime) == IF j.active THEN [j EXCEPT !.acc = @ + deltaTime] ELSE j

Called(call, emitted, j) ==
    /\ journey' = j
    /\ budget' = budget - 1
    /\ lastCall' = call
    /\ prevCall' = IF lastCall.op \in RateOps \cup {"setGPSLocation"}
                   THEN lastCall ELSE NoCall
    /\ signals' = emitted

(***************************************************************************)
(* Operations.                                                             *)
(***************************************************************************)
\* StelCore::update (lines 243-257).
updateOf(deltaTime) ==
    /\ JDay' = updateTimeJDay(JDay, timeSpeed, deltaTime)
    /\ position' = updateTimePosition(position, deltaTime)
    /\ selected' = updateTimeSelection(position, selected)
    /\ matDerivedFrom' = updateTransformMatricesOf(position', JDay', frame)
    /\ UNCHANGED <<timeSpeed, useGPS, lastGPSLocation, absIsIntegral,
                   clockVars, stepKinds, frame, flagTracking>>

update(deltaTime) ==
    /\ CanCall
    /\ updateOf(deltaTime)
    /\ Called([op |-> "update", deltaTime |-> deltaTime, pre |-> JDay,
               prePosition |-> position], <<>>, Ticked(journey, deltaTime))

\* StelCore::update as the main loop calls it, tick after tick without end:
\* not counted against the calls of the run, the time ticked not summed.
tick(deltaTime) ==
    /\ updateOf(deltaTime)
    /\ lastCall' = [op |-> "update", deltaTime |-> deltaTime, pre |-> JDay,
                    prePosition |-> position]
    /\ prevCall' = NoCall
    /\ signals' = <<>>
    /\ UNCHANGED <<journey, budget>>

setJDay(jd) ==
    /\ CanCall
    /\ JDay' = setJDayOf(jd)
    /\ Called([op |-> "setJDay", JD |-> jd, pre |-> JDay], <<>>, journey)
    /\ UNCHANGED <<timeSpeed, position, useGPS, lastGPSLocation, absIsIntegral,
                   matDerivedFrom,
                   clockVars, stepKinds, frameVars, uiVars>>

setTimeRate(ts) ==
    /\ CanCall
    /\ timeSpeed' = ts
    /\ Called([op |-> "setTimeRate", ts |-> ts, pre |-> timeSpeed], <<>>, journey)
    /\ UNCHANGED <<JDay, position, useGPS, lastGPSLocation, absIsIntegral,
                   matDerivedFrom,
                   clockVars, stepKinds, frameVars, uiVars>>

\* Lines 541-544.
addSolarDays(d) ==
    /\ CanCall
    /\ JDay' = setJDayOf(DurAdd(JDay, Days(d)))
    /\ Called([op |-> "addSolarDays", d |-> d, pre |-> JDay], <<>>, journey)
    /\ UNCHANGED <<timeSpeed, position, useGPS, lastGPSLocation, absIsIntegral,
                   matDerivedFrom,
                   clockVars, stepKinds, frameVars, uiVars>>

SiderealSpan(obs, d) ==
    LET day == IF getHomePlanetName(obs) /= "Solar System StelObserver"
               THEN SiderealDay(getHomePlanetName(obs)) ELSE <<1, 0>>
    IN  IF d >= 0 THEN DurMul(day, d) ELSE DurNeg(DurMul(day, -d))

\* Lines 546-552.
addSiderealDays(d) ==
    /\ CanCall
    /\ JDay' = setJDayOf(DurAdd(JDay, SiderealSpan(position, d)))
    /\ Called([op |-> "addSiderealDays", d |-> d, pre |-> JDay], <<>>, journey)
    /\ UNCHANGED <<timeSpeed, position, useGPS, lastGPSLocation, absIsIntegral,
                   matDerivedFrom,
                   clockVars, stepKinds, frameVars, uiVars>>

\* The x10 steps are coarse, the x2 steps fine.
StepKind(name) ==
    IF name \in {"increaseTimeSpeed", "decreaseTimeSpeed"} THEN "coarse" ELSE "fine"

RateStep(name, s) ==
    /\ CanCall
    /\ RateInBounds(s)
    /\ timeSpeed' = s
    /\ stepKinds' = stepKinds \cup {StepKind(name)}
    /\ Called([op |-> name, pre |-> timeSpeed], <<>>, journey)
    /\ UNCHANGED <<JDay, position, useGPS, lastGPSLocation, absIsIntegral,
                   matDerivedFrom, clockVars, frameVars, uiVars>>

increaseTimeSpeed == RateStep("increaseTimeSpeed", increaseTimeSpeedOf(timeSpeed))
decreaseTimeSpeed == RateStep("decreaseTimeSpeed", decreaseTimeSpeedOf(timeSpeed))
increaseTimeSpeedLess ==
    RateStep("increaseTimeSpeedLess", increaseTimeSpeedLessOf(timeSpeed))
decreaseTimeSpeedLess ==
    RateStep("decreaseTimeSpeedLess", decreaseTimeSpeedLessOf(timeSpeed))

\* Mutant: the move recomputes the matrices for the new observer.
moveObserverTo_RecomputesMatrices(target, duration, durationIfPlanetChange) ==
    /\ CanCall
    /\ position' = moveObserverToOf(position, target, duration, durationIfPlanetChange)
    /\ matDerivedFrom' = updateTransformMatricesOf(position', JDay, frame)
    /\ Called([op |-> "moveObserverTo", target |-> target, duration |-> duration,
               durationIfPlanetChange |-> durationIfPlanetChange,
               pre |-> position],
              moveObserverToSignals(target),
              JourneyOf(position, target, duration, durationIfPlanetChange))
    /\ UNCHANGED <<JDay, timeSpeed, useGPS, lastGPSLocation, absIsIntegral,
                   clockVars, stepKinds, frameVars, uiVars>>

\* Lines 480-502.
moveObserverTo(target, duration, durationIfPlanetChange) ==
    /\ CanCall
    /\ position' = moveObserverToOf(position, target, duration, durationIfPlanetChange)
    /\ Called([op |-> "moveObserverTo", target |-> target, duration |-> duration,
               durationIfPlanetChange |-> durationIfPlanetChange,
               pre |-> position],
              moveObserverToSignals(target),
              JourneyOf(position, target, duration, durationIfPlanetChange))
    /\ UNCHANGED <<JDay, timeSpeed, useGPS, lastGPSLocation, absIsIntegral,
                   matDerivedFrom,
                   clockVars, stepKinds, frameVars, uiVars>>

\* Lines 406-416.
setUseGPS(f) ==
    /\ CanCall
    /\ useGPS' = f
    /\ IF f /\ lastGPSLocation.valid
       THEN /\ position' = moveObserverToOf(position, lastGPSLocation,
                               DefaultDuration, DefaultDurationIfPlanetChange)
            /\ Called([op |-> "setUseGPS", f |-> f, pre |-> position],
                      moveObserverToSignals(lastGPSLocation),
                      JourneyOf(position, lastGPSLocation,
                                DefaultDuration, DefaultDurationIfPlanetChange))
       ELSE /\ position' = position
            /\ Called([op |-> "setUseGPS", f |-> f, pre |-> position], <<>>, journey)
    /\ UNCHANGED <<JDay, timeSpeed, lastGPSLocation, absIsIntegral, matDerivedFrom,
                   clockVars, stepKinds, frameVars, uiVars>>

\* Lines 420-443.
setGPSLocation(lon, lat) ==
    LET call == [op |-> "setGPSLocation", lon |-> lon, lat |-> lat,
                 pre |-> position, last |-> lastGPSLocation]
        gpsLoc == GPSLocation(lon, lat)
    IN  /\ CanCall
        /\ IF GPSAccepts(lastGPSLocation, lon, lat, absIsIntegral)
           THEN /\ lastGPSLocation' = gpsLoc
                /\ IF GPSMoves(useGPS)
                   THEN /\ position' = moveObserverToOf(position, gpsLoc,
                                DefaultDuration, DefaultDurationIfPlanetChange)
                        /\ Called(call, moveObserverToSignals(gpsLoc),
                                  JourneyOf(position, gpsLoc, DefaultDuration,
                                            DefaultDurationIfPlanetChange))
                   ELSE /\ position' = position
                        /\ Called(call, <<>>, journey)
           ELSE /\ UNCHANGED <<lastGPSLocation, position>>
                /\ Called(call, <<>>, journey)
        /\ UNCHANGED <<JDay, timeSpeed, useGPS, absIsIntegral, matDerivedFrom,
                   clockVars, stepKinds, frameVars, uiVars>>

(***************************************************************************)
(* StelCore::getIsTimeNow (lines 528-539).                                 *)
(***************************************************************************)
DurSub(a, b) == DurAdd(a, DurNeg(b))

\* fabs(a - b).
DurDist(a, b) == IF DurLt(a, b) THEN DurSub(b, a) ELSE DurSub(a, b)

\* fabs(jd - StelUtils::getJDFromSystem()) < JD_SECOND (lines 532, 536).
WithinSecond(jd, now) == DurLt(DurDist(jd, now), <<0, TicksPerSecond>>)

\* fabs(lastJD - getJDay()) > JD_SECOND/4 (line 533).
MovedQuarterSecond(last, jd) ==
    DurLt(<<0, TicksPerSecond>>, DurMul(DurDist(last, jd), 4))

\* The statics are initialised by the first call (lines 531-532); a later
\* call refreshes them only when JDay has moved (lines 533-537).
getIsTimeNow ==
    LET refresh == ~staticsReady \/ MovedQuarterSecond(lastJD, JDay)
        result == IF refresh THEN WithinSecond(JDay, systemJD) ELSE previousResult
    IN  /\ CanCall
        /\ staticsReady' = TRUE
        /\ lastJD' = IF refresh THEN JDay ELSE lastJD
        /\ previousResult' = result
        /\ Called([op |-> "getIsTimeNow", result |-> result, refreshed |-> refresh],
                  <<>>, journey)
        /\ UNCHANGED <<JDay, timeSpeed, position, useGPS, lastGPSLocation,
                       absIsIntegral, matDerivedFrom, systemJD, stepKinds, frameVars, uiVars>>

\* The real-world clock moves on by a number of seconds.
realTimePasses(seconds) ==
    /\ CanCall
    /\ systemJD' = DurAdd(systemJD, <<0, seconds * TicksPerSecond>>)
    /\ Called([op |-> "realTimePasses", seconds |-> seconds], <<>>, journey)
    /\ UNCHANGED <<JDay, timeSpeed, position, useGPS, lastGPSLocation,
                   absIsIntegral, matDerivedFrom, staticsReady, lastJD,
                   previousResult, stepKinds, frameVars, uiVars>>

(***************************************************************************)
(* StelCore::moveObserverToSelected (lines 446-466).                       *)
(***************************************************************************)
\* Mutant: any selected object is moved to, a planet or not.
SelectionIsPlanet_AnyObject(sel) == sel.kind /= "none"

\* getWasSelected() and the dynamic_cast<Planet*> of lines 449-452.
SelectionIsPlanet(sel) == sel.kind = "Planet"

\* Lines 455-458.
SelectedTarget(cur, sel) ==
    [cur EXCEPT !.planetName = sel.englishName, !.name = "-", !.state = ""]

moveObserverToSelected ==
    LET call == [op |-> "moveObserverToSelected", selected |-> selected,
                 pre |-> position, tracking |-> flagTracking]
        loc == SelectedTarget(getCurrentLocation(position), selected)
    IN  /\ CanCall
        /\ IF SelectionIsPlanet(selected)
           THEN /\ position' = moveObserverToOf(position, loc, DefaultDuration,
                                                DefaultDurationIfPlanetChange)
                /\ Called(call, moveObserverToSignals(loc),
                          JourneyOf(position, loc, DefaultDuration,
                                    DefaultDurationIfPlanetChange))
           ELSE /\ position' = position
                /\ Called(call, <<>>, journey)
        /\ flagTracking' = FALSE
        /\ UNCHANGED <<JDay, timeSpeed, useGPS, lastGPSLocation, absIsIntegral,
                       matDerivedFrom, clockVars, stepKinds, frameVars, selected>>

\* The user selects an object, or nothing (StelObjectMgr).
select(obj) ==
    /\ CanCall
    /\ selected' = obj
    /\ Called([op |-> "select"], <<>>, journey)
    /\ UNCHANGED <<JDay, timeSpeed, position, useGPS, lastGPSLocation,
                   absIsIntegral, matDerivedFrom, clockVars, stepKinds,
                   frameVars, flagTracking>>

\* StelMovementMgr::setFlagTracking.
setFlagTracking(b) ==
    /\ CanCall
    /\ flagTracking' = b
    /\ Called([op |-> "setFlagTracking"], <<>>, journey)
    /\ UNCHANGED <<JDay, timeSpeed, position, useGPS, lastGPSLocation,
                   absIsIntegral, matDerivedFrom, clockVars, stepKinds,
                   frameVars, selected>>

\* The observer's frame of reference changes (the sky turns, the observer
\* moves): position-> reports f from now on.
frameChanges(f) ==
    /\ CanCall
    /\ f /= frame
    /\ frame' = f
    /\ Called([op |-> "frameChanges"], <<>>, journey)
    /\ UNCHANGED <<JDay, timeSpeed, position, useGPS, lastGPSLocation,
                   absIsIntegral, matDerivedFrom, clockVars, stepKinds, uiVars>>

(***************************************************************************)
(* Specifications.                                                         *)
(***************************************************************************)
\* After StelCore::StelCore and StelCore::init (lines 55-140); the real-world
\* time is one of clocks, getIsTimeNow has not been called yet.
InitOf(calls, jdays, rates, clocks, frames) ==
    /\ frame \in frames
    /\ selected = NoSelection
    /\ flagTracking = FALSE
    /\ systemJD \in clocks
    /\ staticsReady = FALSE
    /\ lastJD = DurZero
    /\ previousResult = FALSE
    /\ stepKinds = {}
    /\ JDay \in jdays
    /\ timeSpeed \in rates
    /\ position = StelObserver(DefaultLocation)
    /\ useGPS \in BOOLEAN
    /\ lastGPSLocation = NoLocation
    /\ absIsIntegral \in BOOLEAN
    /\ matDerivedFrom = updateTransformMatricesOf(position, JDay, frame)
    /\ lastCall = [op |-> "init"]
    /\ prevCall = NoCall
    /\ signals = <<>>
    /\ journey = NoJourney
    /\ budget = calls

InitAt(calls, jdays, rates, clocks) ==
    InitOf(calls, jdays, rates, clocks, {DefaultFrame})

InitWith(calls, jdays, rates) == InitAt(calls, jdays, rates, {J2000})

TimeCalls ==
    \/ \E dt \in LongDeltaTimes : update(dt)
    \/ \E jd \in JDayInputs : setJDay(jd)
    \/ \E d \in DayCounts : addSolarDays(d)
    \/ \E d \in DayCounts : addSiderealDays(d)

RateCalls ==
    \/ increaseTimeSpeed
    \/ decreaseTimeSpeed
    \/ increaseTimeSpeedLess
    \/ decreaseTimeSpeedLess

ObserverCalls ==
    \/ \E dt \in DeltaTimes : update(dt)
    \/ \E t \in Locations, d \in Durations, dp \in PlanetChangeDurations :
          moveObserverTo(t, d, dp)

GPSCalls ==
    \/ \E f \in BOOLEAN : setUseGPS(f)
    \/ \E lon \in GPSLongitudes, lat \in GPSLatitudes : setGPSLocation(lon, lat)

Init == InitWith(MaxCalls, {J2000} \cup NearBounds, {JD_SECOND})

Next ==
    \/ \E dt \in {1, 4} : update(dt)
    \/ \E jd \in NearBounds : setJDay(jd)
    \/ \E d \in {-1, 1} : addSolarDays(d)
    \/ \E d \in {-1, 1} : addSiderealDays(d)
    \/ \E ts \in {RatZero, RatNeg(JD_SECOND), JD_DAY} : setTimeRate(ts)
    \/ RateCalls
    \/ \E t \in {Quito, Olympus}, d \in {0, 5}, dp \in {20} : moveObserverTo(t, d, dp)
    \/ \E f \in BOOLEAN : setUseGPS(f)
    \/ \E lon \in {2351, 2451}, lat \in {48851} : setGPSLocation(lon, lat)

Spec == Init /\ [][Next]_vars

\* The time model alone: every way JDay changes.
InitTime == InitWith(MaxTimeCalls, {J2000} \cup NearBounds, RateInputs)
NextTime == TimeCalls
SpecTime == InitTime /\ [][NextTime]_vars

\* The rate steps alone, from any rate setTimeRate may have stored.
RateStarts ==
    {Rat(n, d) : n \in {-25, -20, -10, -5, -3, -2, -1, 0, 1, 2, 3, 5, 10, 20, 25},
                 d \in {1, 2, 4}}
InitRate == InitWith(MaxRateCalls, {J2000}, RateStarts)
NextRate == RateCalls
SpecRate == InitRate /\ [][NextRate]_vars

\* The observer alone: moves and ticks.
InitObserver == InitWith(MaxObserverCalls, {J2000}, {JD_SECOND})
NextObserver == ObserverCalls
SpecObserver == InitObserver /\ [][NextObserver]_vars

\* GPS samples and the GPS switch.
InitGPS == InitWith(MaxGPSCalls, {J2000}, {JD_SECOND})
NextGPS ==
    \/ GPSCalls
    \/ \E dp \in PlanetChangeDurations : moveObserverTo(Olympus, 5, dp)
SpecGPS == InitGPS /\ [][NextGPS]_vars

\* Simulated time against the real-world clock.
MaxNowCalls == 4
NowJDays == {J2000, DurAdd(J2000, <<0, TicksPerSecond \div 5>>),
             DurAdd(J2000, <<0, 5 * TicksPerSecond>>)}
InitNow == InitAt(MaxNowCalls, NowJDays, {RatZero, JD_SECOND}, {J2000})
NextNow ==
    \/ getIsTimeNow
    \/ \E seconds \in {1, 5} : realTimePasses(seconds)
    \/ \E dt \in {1, 5} : update(dt)
    \/ \E jd \in NowJDays : setJDay(jd)
SpecNow == InitNow /\ [][NextNow]_vars

\* The transform matrices over the frames the observer may report.
MaxTransformCalls == 2
MaxCoordinate == 7
Rotations == {Identity4, ZRotation, AxisCycle, MatMul(XRotation, ZRotation)}
Centers == {<<0, 0, 0>>, <<1, -2, 3>>, <<-MaxCoordinate, 0, MaxCoordinate>>}
Distances == {0, MaxCoordinate}
Frames ==
    {Frame(rotAE, rotEV, c, d) :
        rotAE \in Rotations, rotEV \in {XRotation, AxisCycle}, c \in Centers,
        d \in Distances}
InitTransform == InitOf(MaxTransformCalls, {J2000}, {JD_SECOND}, {J2000}, Frames)
NextTransform ==
    \/ \E f \in Frames : frameChanges(f)
    \/ \E dt \in {1} : update(dt)
SpecTransform == InitTransform /\ [][NextTransform]_vars

\* Moves, a bounded number of them, under a main loop that keeps ticking
\* with a positive deltaTime; the time is paused.
MaxArrivalMoves == 2
PositiveDeltaTimes == {4}
InitArrival == InitWith(MaxArrivalMoves, {J2000}, {RatZero})
NextArrival ==
    \/ \E dt \in PositiveDeltaTimes \cup {0} : tick(dt)
    \/ \E t \in {Quito, Olympus}, d \in {5}, dp \in PlanetChangeDurations :
          moveObserverTo(t, d, dp)
SpecArrival ==
    /\ InitArrival
    /\ [][NextArrival]_vars
    /\ WF_vars(\E dt \in PositiveDeltaTimes : tick(dt))

\* The rate steps from the rate the constructor sets (line 55).
MaxLadderCalls == 4
InitLadder == InitWith(MaxLadderCalls, {J2000}, {JD_SECOND})
NextLadder == RateCalls
SpecLadder == InitLadder /\ [][NextLadder]_vars

\* Moves to the selected object.
MaxSelectedCalls == 5
Objects == {NoSelection, Object("Star", "Sirius"), Object("Planet", "Mars"),
            Object("Planet", "Earth")}
InitSelected == InitWith(MaxSelectedCalls, {J2000}, {JD_SECOND})
NextSelected ==
    \/ \E obj \in Objects : select(obj)
    \/ setFlagTracking(TRUE)
    \/ moveObserverToSelected
    \/ \E t \in {Quito, Olympus} : moveObserverTo(t, 5, 20)
    \/ \E dt \in {4, 20} : update(dt)
SpecSelected == InitSelected /\ [][NextSelected]_vars

\* Journeys under every kind of time rate, the time at a limit or not.
MaxProgressCalls == 4
InitProgress ==
    InitWith(MaxProgressCalls, {J2000} \cup NearBounds,
             {RatZero, RatNeg(JD_DAY), JD_DAY})
NextProgress ==
    \/ \E dt \in DeltaTimes : update(dt)
    \/ \E t \in {Quito, Olympus} : moveObserverTo(t, 5, 20)
SpecProgress == InitProgress /\ [][NextProgress]_vars

(***************************************************************************)
(* Properties.                                                             *)
(***************************************************************************)
RATE_TEN == <<10, 1>>
RATE_TWO == <<2, 1>>

C2_Original ==
    (lastCall.op = "moveObserverTo" /\ lastCall.duration = 0)
        => getCurrentLocation(position) = lastCall.target

\* C2 amended: from any observer state, moveObserverTo whose resolved
\* duration (duration when the target is on the current location's planet,
\* durationIfPlanetChange otherwise) is zero or less leaves
\* getCurrentLocation() equal to the target on return.
C2_ZeroResolvedDuration ==
    lastCall.op = "moveObserverTo" =>
        LET same == getCurrentLocation(lastCall.pre).planetName
                        = lastCall.target.planetName
        IN  ((same /\ lastCall.duration <= 0)
                \/ (~same /\ lastCall.durationIfPlanetChange <= 0))
            => getCurrentLocation(position) = lastCall.target

\* C2 witness: an instantaneous move made while travelling, to another place.
C2_Witness ==
    /\ lastCall.op = "moveObserverTo"
    /\ isTraveling(lastCall.pre)
    /\ lastCall.durationIfPlanetChange = 0
    /\ getCurrentLocation(lastCall.pre).planetName /= lastCall.target.planetName
    /\ getCurrentLocation(position) = lastCall.target

\* C3: after moveObserverTo(target, 5, 20) from a stationary observer and
\* no further move, with d = 5 for a target on the current planet and 20
\* otherwise: isTraveling() while less than d seconds of deltaTime were
\* ticked, not once d were, and getCurrentLocation() = target only then.
C3_TravelsForResolvedDuration ==
    (journey.active /\ journey.fromStationary /\ journey.duration = 5
        /\ journey.durationIfPlanetChange = 20)
    => LET d == IF journey.sameBody THEN 5 ELSE 20
       IN  /\ journey.acc < d => isTraveling(position)
           /\ journey.acc >= d => ~isTraveling(position)
           /\ getCurrentLocation(position) = journey.target => journey.acc >= d

\* C3 witness: a move to another planet has arrived after exactly 20 seconds.
C3_Witness ==
    /\ journey.active /\ journey.fromStationary
    /\ journey.duration = 5 /\ journey.durationIfPlanetChange = 20
    /\ ~journey.sameBody
    /\ journey.acc = 20
    /\ lastCall.op = "update" /\ isTraveling(lastCall.prePosition)
    /\ getCurrentLocation(position) = journey.target

\* C4: every moveObserverTo emits exactly one locationChanged, carrying the
\* target, before it returns; a tick emits none, also when it ends a travel.
C4_OneSignalPerMove ==
    /\ lastCall.op = "moveObserverTo" => signals = <<lastCall.target>>
    /\ lastCall.op = "update" => signals = <<>>

\* C4 witness: a tick has ended a travel, or replaced the arrived observer.
C4_Witness ==
    /\ lastCall.op = "update"
    /\ lastCall.prePosition.type = "SpaceShipObserver"
    /\ ~isTraveling(position)
    /\ signals = <<>>

Near(last, lon, lat) ==
    /\ Abs(last.longitude - lon) < GEO_THRESHOLD
    /\ Abs(last.latitude - lat) < GEO_THRESHOLD

\* C5: with an accepted sample, setGPSLocation(lon, lat) with both lon and
\* lat less than 0.1 degree from it changes neither the accepted sample nor
\* the observer and emits nothing.
C5_NearSampleIgnored ==
    (lastCall.op = "setGPSLocation" /\ lastCall.last.valid
        /\ Near(lastCall.last, lastCall.lon, lastCall.lat))
    => /\ lastGPSLocation = lastCall.last
       /\ position = lastCall.pre
       /\ signals = <<>>

\* C5 witness: a sample near the accepted one, but more than 0.1 degree
\* from the sample received (and ignored) just before, has been ignored.
C5_Witness ==
    /\ lastCall.op = "setGPSLocation" /\ prevCall.op = "setGPSLocation"
    /\ lastCall.last.valid
    /\ Near(lastCall.last, lastCall.lon, lastCall.lat)
    /\ Abs(prevCall.lat - lastCall.lat) > GEO_THRESHOLD
    /\ lastGPSLocation = lastCall.last

\* C6 as claimed: setGPSLocation(lon, lat) takes the sample when there is
\* none yet, or lat or lon is 0.1 degree or more from the accepted one, in
\* either direction.
C6_Original ==
    (lastCall.op = "setGPSLocation"
        /\ (\/ ~lastCall.last.valid
            \/ Abs(lastCall.last.latitude - lastCall.lat) >= GEO_THRESHOLD
            \/ Abs(lastCall.last.longitude - lastCall.lon) >= GEO_THRESHOLD))
    => /\ lastGPSLocation.valid
       /\ lastGPSLocation.longitude = lastCall.lon
       /\ lastGPSLocation.latitude = lastCall.lat

OutsideBand(s) == RatLe(JD_SECOND, s) \/ RatLe(s, RatNeg(JD_SECOND))

IncreaseThenDecrease ==
    \/ prevCall.op = "increaseTimeSpeed" /\ lastCall.op = "decreaseTimeSpeed"
    \/ prevCall.op = "increaseTimeSpeedLess" /\ lastCall.op = "decreaseTimeSpeedLess"

\* C8 as claimed: from any rate s with s >= JD_SECOND or s <= -JD_SECOND,
\* an increase followed by the decrease of the same granularity gives s.
C8_Original ==
    (IncreaseThenDecrease /\ OutsideBand(prevCall.pre)) => timeSpeed = prevCall.pre

\* C8 amended: that holds from any rate s with s >= JD_SECOND, or
\* s = -JD_SECOND, or s <= -10*JD_SECOND for the coarse pair and
\* s <= -2*JD_SECOND for the fine pair.
C8_RoundTrip ==
    IncreaseThenDecrease =>
        LET s == prevCall.pre
            g == IF prevCall.op = "increaseTimeSpeed" THEN RATE_TEN ELSE RATE_TWO
        IN  (\/ RatLe(JD_SECOND, s)
             \/ s = RatNeg(JD_SECOND)
             \/ RatLe(s, RatNeg(g)))
            => timeSpeed = s

\* C8 witness: a negative rate has made the fine round trip.
C8_Witness ==
    /\ prevCall.op = "increaseTimeSpeedLess" /\ lastCall.op = "decreaseTimeSpeedLess"
    /\ RatLe(prevCall.pre, RatNeg(RATE_TWO))
    /\ lastCall.pre /= prevCall.pre
    /\ timeSpeed = prevCall.pre

DecreaseStep == lastCall.op \in {"decreaseTimeSpeed", "decreaseTimeSpeedLess"}
IncreaseStep == lastCall.op \in {"increaseTimeSpeed", "increaseTimeSpeedLess"}
StepFactor == IF lastCall.op \in {"increaseTimeSpeed", "decreaseTimeSpeed"} THEN 10 ELSE 2

\* C9 as claimed: decrease maps s to s/10 when s >= JD_SECOND, to s*10 when
\* s <= -JD_SECOND, to 0 when 0 <= s < JD_SECOND and to -JD_SECOND when
\* -JD_SECOND <= s < 0 (2 for 10 in the fine step).
C9_Original ==
    DecreaseStep =>
        LET s == lastCall.pre
        IN  /\ RatLe(JD_SECOND, s) => timeSpeed = RatDiv(s, StepFactor)
            /\ RatLe(s, RatNeg(JD_SECOND)) => timeSpeed = RatMul(s, StepFactor)
            /\ (RatLe(RatZero, s) /\ RatLt(s, JD_SECOND)) => timeSpeed = RatZero
            /\ (RatLe(RatNeg(JD_SECOND), s) /\ RatLt(s, RatZero))
                   => timeSpeed = RatNeg(JD_SECOND)

\* C9 amended: decrease maps s to s/10 when s > JD_SECOND, to s*10 when
\* s <= -JD_SECOND, to 0 when 0 < s <= JD_SECOND and to -JD_SECOND when
\* -JD_SECOND < s <= 0 (2 for 10 in the fine step).
C9_DecreaseTable ==
    DecreaseStep =>
        LET s == lastCall.pre
        IN  /\ RatLt(JD_SECOND, s) => timeSpeed = RatDiv(s, StepFactor)
            /\ RatLe(s, RatNeg(JD_SECOND)) => timeSpeed = RatMul(s, StepFactor)
            /\ (RatLt(RatZero, s) /\ RatLe(s, JD_SECOND)) => timeSpeed = RatZero
            /\ (RatLt(RatNeg(JD_SECOND), s) /\ RatLe(s, RatZero))
                   => timeSpeed = RatNeg(JD_SECOND)

\* C9 witness: the coarse decrease has taken JD_SECOND to 0.
C9_Witness ==
    /\ lastCall.op = "decreaseTimeSpeed"
    /\ lastCall.pre = JD_SECOND
    /\ timeSpeed = RatZero

ZeroUpAndDown ==
    /\ prevCall.op = "increaseTimeSpeed" /\ prevCall.pre = RatZero
    /\ lastCall.op = "decreaseTimeSpeed"

\* C10 as claimed: increase maps s to s*10 when s >= JD_SECOND, to s/10
\* when s <= -JD_SECOND, to JD_SECOND when 0 <= s < JD_SECOND and to 0 when
\* -JD_SECOND <= s < 0 (2 for 10 in the fine step); and 0 goes to JD_SECOND
\* by increase and back to 0 by decrease.
C10_Original ==
    /\ IncreaseStep =>
        LET s == lastCall.pre
        IN  /\ RatLe(JD_SECOND, s) => timeSpeed = RatMul(s, StepFactor)
            /\ RatLe(s, RatNeg(JD_SECOND)) => timeSpeed = RatDiv(s, StepFactor)
            /\ (RatLe(RatZero, s) /\ RatLt(s, JD_SECOND)) => timeSpeed = JD_SECOND
            /\ (RatLe(RatNeg(JD_SECOND), s) /\ RatLt(s, RatZero))
                   => timeSpeed = RatZero
    /\ ZeroUpAndDown => (lastCall.pre = JD_SECOND /\ timeSpeed = RatZero)

\* C10 amended: the same with s/10 only when s < -JD_SECOND.
C10_IncreaseTable ==
    /\ IncreaseStep =>
        LET s == lastCall.pre
        IN  /\ RatLe(JD_SECOND, s) => timeSpeed = RatMul(s, StepFactor)
            /\ RatLt(s, RatNeg(JD_SECOND)) => timeSpeed = RatDiv(s, StepFactor)
            /\ (RatLe(RatZero, s) /\ RatLt(s, JD_SECOND)) => timeSpeed = JD_SECOND
            /\ (RatLe(RatNeg(JD_SECOND), s) /\ RatLt(s, RatZero))
                   => timeSpeed = RatZero
    /\ ZeroUpAndDown => (lastCall.pre = JD_SECOND /\ timeSpeed = RatZero)

\* C10 witness: the coarse increase has taken -JD_SECOND to 0.
C10_Witness ==
    /\ lastCall.op = "increaseTimeSpeed"
    /\ lastCall.pre = RatNeg(JD_SECOND)
    /\ timeSpeed = RatZero

\* C11: with a zero time rate and JDay within the limits, update leaves JDay
\* as it was, whatever deltaTime is, at every tick.
C11_PausedTimeStands ==
    (lastCall.op = "update" /\ timeSpeed = RatZero /\ InRange(lastCall.pre))
    => JDay = lastCall.pre

\* C11 witness: paused at J2000, a tick of 86400 seconds has run.
C11_Witness ==
    /\ lastCall.op = "update" /\ timeSpeed = RatZero
    /\ lastCall.deltaTime = 86400
    /\ lastCall.pre = J2000 /\ JDay = J2000

\* C12 as claimed: from J2000 at rate JD_DAY, update(86400) advances JDay by
\* exactly one day.
C12_Original ==
    (lastCall.op = "update" /\ timeSpeed = JD_DAY /\ lastCall.deltaTime = 86400
        /\ lastCall.pre = J2000)
    => JDay = DurAdd(J2000, Days(1))

\* C12: from J2000 at rate JD_DAY (one day per second), update(86400)
\* advances JDay by exactly 86400 days; at rate JD_SECOND it advances it by
\* exactly one day.
C12_DayRateAdvancesDayPerSecond ==
    (lastCall.op = "update" /\ lastCall.deltaTime = 86400 /\ lastCall.pre = J2000)
    => /\ timeSpeed = JD_DAY => JDay = DurAdd(J2000, Days(86400))
       /\ timeSpeed = JD_SECOND => JDay = DurAdd(J2000, Days(1))

\* C12 witness: the tick of 86400 seconds at rate JD_DAY from J2000.
C12_Witness ==
    /\ lastCall.op = "update" /\ timeSpeed = JD_DAY
    /\ lastCall.deltaTime = 86400 /\ lastCall.pre = J2000
    /\ JDay = <<2451545 + 86400, 0>>
\* C13 as claimed: every getIsTimeNow call returns true exactly when JDay is
\* within JD_SECOND of the real-world time at that call.
C13_Original ==
    lastCall.op = "getIsTimeNow"
    => (lastCall.result <=> WithinSecond(JDay, systemJD))
\* C14: the observer is always a StelObserver or a SpaceShipObserver, and a
\* SpaceShipObserver always has a positive travel duration, whatever
\* durations moveObserverTo was given.
C14_ObserverWellFormed ==
    /\ position.type \in {"StelObserver", "SpaceShipObserver"}
    /\ position.type = "SpaceShipObserver" => position.transitSeconds > 0
    /\ (lastCall.op = "moveObserverTo"
          /\ MoveDuration(lastCall.pre, lastCall.target, lastCall.duration,
                          lastCall.durationIfPlanetChange) <= 0)
       => position.type = "StelObserver"

\* C14 witness: a move with a negative duration, made while travelling,
\* has left a stationary observer.
C14_Witness ==
    /\ lastCall.op = "moveObserverTo"
    /\ lastCall.duration < 0
    /\ lastCall.pre.type = "SpaceShipObserver"
    /\ getCurrentLocation(lastCall.pre).planetName = lastCall.target.planetName
    /\ position = StelObserver(lastCall.target)
SamplePoints == {<<0, 0, 0>>, <<1, 2, 3>>, <<-4, 0, 9>>}

\* C15: after every recomputation of the matrices, HeliocentricEcliptic ->
\* AltAz composed with AltAz -> HeliocentricEcliptic is the identity, in
\* both orders, and maps every sample point back to itself, for every
\* centre and distance from the centre, the rotations being orthonormal.
C15_HelioAltAzRoundTrip ==
    lastCall.op \in {"init", "update"}
    => /\ matDerivedFrom.frame = frame
       /\ MatMul(mat.matHeliocentricEclipticToAltAz,
                 mat.matAltAzToHeliocentricEcliptic) = Identity4
       /\ MatMul(mat.matAltAzToHeliocentricEcliptic,
                 mat.matHeliocentricEclipticToAltAz) = Identity4
       /\ \A p \in SamplePoints :
             Apply(mat.matHeliocentricEclipticToAltAz,
                   Apply(mat.matAltAzToHeliocentricEcliptic, p)) = p

\* C15 witness: the matrices were recomputed in a tick after the frame had
\* changed, with a centre away from the origin, a distance from the centre,
\* and a rotation that is not its own inverse.
C15_Witness ==
    /\ lastCall.op = "update"
    /\ frame.centerVsop87Pos = <<1, -2, 3>>
    /\ frame.distanceFromCenter = MaxCoordinate
    /\ TmpOf(frame) /= Transpose(TmpOf(frame))
    /\ mat.matAltAzToHeliocentricEcliptic /= mat.matHeliocentricEclipticToAltAz
    /\ Apply(mat.matAltAzToHeliocentricEcliptic, <<0, 0, 0>>) /= <<0, 0, 0>>
    /\ frame /= DefaultFrame
\* C16: a tick advances and clamps the time, then replaces a life-over
\* observer and advances the observer, then recomputes the matrices: at the
\* end of the tick the matrices are derived from the observer and the JDay
\* current at that end, never from those the tick started with.
C16_MatricesFromEndOfTick ==
    lastCall.op = "update"
    => /\ JDay = ClampJDay(DurAdd(lastCall.pre, Span(timeSpeed, lastCall.deltaTime)))
       /\ position =
            ObserverUpdate(IF isObserverLifeOver(lastCall.prePosition)
                           THEN getNextObserver(lastCall.prePosition)
                           ELSE lastCall.prePosition, lastCall.deltaTime)
       /\ matDerivedFrom.position = position
       /\ matDerivedFrom.JDay = JDay
       /\ matDerivedFrom.frame = frame

\* C16 witness: a tick that moved the time and replaced the observer, the
\* matrices being those of the new observer and the new time.
C16_Witness ==
    /\ lastCall.op = "update"
    /\ JDay /= lastCall.pre
    /\ isObserverLifeOver(lastCall.prePosition)
    /\ matDerivedFrom.position = StelObserver(lastCall.prePosition.moveTargetLocation)
    /\ matDerivedFrom.JDay = JDay

\* C17: a travelling observer is not replaced in the tick in which it
\* arrives; an observer that is life-over when a tick starts is replaced by
\* the stationary observer at its target in that tick, before the matrices
\* are recomputed, so these are never derived from it.
C17_ReplacedAtNextTick ==
    lastCall.op = "update"
    => /\ isTraveling(lastCall.prePosition)
          => /\ position.type = "SpaceShipObserver"
             /\ position.moveTargetLocation = lastCall.prePosition.moveTargetLocation
       /\ isObserverLifeOver(lastCall.prePosition)
          => /\ position = StelObserver(lastCall.prePosition.moveTargetLocation)
             /\ matDerivedFrom.position = position
             /\ matDerivedFrom.position /= lastCall.prePosition

\* C17 witness: the tick after the one in which the observer arrived has
\* replaced it, the journey's time being used up.
C17_Witness ==
    /\ lastCall.op = "update"
    /\ lastCall.prePosition.type = "SpaceShipObserver"
    /\ isObserverLifeOver(lastCall.prePosition)
    /\ journey.active /\ journey.acc > 0
    /\ position = StelObserver(journey.target)

\* C18: a move with a positive resolved duration made while travelling
\* starts a new journey from the in-flight location renamed ".", towards the
\* new target; made while stationary it starts from the location under its
\* own name; the journey ends at the target of the last move.
C18_SupersedingMove ==
    /\ (lastCall.op = "moveObserverTo"
          /\ MoveDuration(lastCall.pre, lastCall.target, lastCall.duration,
                          lastCall.durationIfPlanetChange) > 0)
       => /\ position.type = "SpaceShipObserver"
          /\ position.moveTargetLocation = lastCall.target
          /\ isTraveling(lastCall.pre)
             => position.moveStartLocation =
                    [getCurrentLocation(lastCall.pre) EXCEPT !.name = "."]
          /\ lastCall.pre.type = "StelObserver"
             => position.moveStartLocation = lastCall.pre.currentLocation
    /\ (lastCall.op = "update" /\ journey.active /\ position.type = "StelObserver")
       => position.currentLocation = journey.target

\* C18 witness: a move made part-way through a journey to another target.
C18_Witness ==
    /\ lastCall.op = "moveObserverTo"
    /\ isTraveling(lastCall.pre) /\ lastCall.pre.elapsed > 0
    /\ lastCall.pre.moveTargetLocation /= lastCall.target
    /\ position.type = "SpaceShipObserver"
    /\ position.moveStartLocation.name = "."
    /\ position.moveStartLocation.latitude /= lastCall.pre.moveStartLocation.latitude
\* C19: with ticks of positive deltaTime going on for ever and finitely many
\* moves, the observer ends up stationary at the target of the last move and
\* stays there, not travelling.
C19_EveryMoveCompletes ==
    <>[](/\ position.type = "StelObserver"
         /\ ~isTraveling(position)
         /\ journey.active => position.currentLocation = journey.target)

\* C19 witness: after the last move the run may make, a tick has replaced
\* the arrived observer by the stationary one at that move's target.
C19_Witness ==
    /\ budget = 0
    /\ lastCall.op = "update"
    /\ isObserverLifeOver(lastCall.prePosition)
    /\ journey.active /\ journey.durationIfPlanetChange > 0 /\ ~journey.sameBody
    /\ position = StelObserver(journey.target)
OnLadder(s) == s = RatZero \/ RatLe(JD_SECOND, s) \/ RatLe(s, RatNeg(JD_SECOND))

\* C20 as claimed: from the initial rate JD_SECOND, after any mix of coarse
\* and fine steps the rate is 0 or at least JD_SECOND in magnitude.
C20_Original == OnLadder(timeSpeed)

\* C20: from the initial rate JD_SECOND, steps of a single granularity keep
\* the rate at 0 or at least JD_SECOND in magnitude; after a mix of coarse
\* and fine steps the rate is 0 or more than JD_SECOND/10 in magnitude.
C20_LadderPerGranularity ==
    /\ Cardinality(stepKinds) <= 1 => OnLadder(timeSpeed)
    /\ \/ timeSpeed = RatZero
       \/ RatLt(JD_SECOND, RatMul(timeSpeed, 10))
       \/ RatLt(RatMul(timeSpeed, 10), RatNeg(JD_SECOND))

\* C20 witness: a fine increase and a coarse decrease have left the rate at
\* a fifth of JD_SECOND.
C20_Witness ==
    /\ stepKinds = {"coarse", "fine"}
    /\ lastCall.op = "decreaseTimeSpeed"
    /\ lastCall.pre = RatMul(JD_SECOND, 2)
    /\ timeSpeed = Rat(1, 5)
\* C21: moveObserverToSelected moves the observer exactly when a planet is
\* selected, to the current location with the planet set to the selected
\* one, the name "-" and an empty state; whatever is selected, the tracking
\* flag is false on return.
C21_MoveToSelectedPlanet ==
    lastCall.op = "moveObserverToSelected"
    => LET cur == getCurrentLocation(lastCall.pre)
           loc == [cur EXCEPT !.planetName = lastCall.selected.englishName,
                              !.name = "-", !.state = ""]
       IN  /\ flagTracking = FALSE
           /\ lastCall.selected.kind = "Planet"
              => /\ signals = <<loc>>
                 /\ getCurrentLocation(position) = loc
           /\ lastCall.selected.kind /= "Planet"
              => /\ signals = <<>>
                 /\ position = lastCall.pre

\* C21 witness: with tracking on and Mars selected during a journey on
\* Earth, the observer has been put on Mars at the in-flight coordinates.
C21_Witness ==
    /\ lastCall.op = "moveObserverToSelected"
    /\ lastCall.tracking /\ ~flagTracking
    /\ lastCall.selected = Object("Planet", "Mars")
    /\ isTraveling(lastCall.pre) /\ lastCall.pre.elapsed > 0
    /\ getCurrentLocation(position).planetName = "Mars"
    /\ getCurrentLocation(position).name = "-"
    /\ getCurrentLocation(position).latitude
          = getCurrentLocation(lastCall.pre).latitude
\* C22: whatever the time rate (zero, negative, positive) and whether or
\* not JDay stands at a limit, a journey of resolved duration d is under
\* way exactly while less than d seconds of deltaTime have been ticked since
\* the move, and the observer is at the target once d have been.
C22_ProgressByDeltaTimeOnly ==
    journey.active
    => LET d == IF journey.sameBody THEN journey.duration
                                    ELSE journey.durationIfPlanetChange
       IN  d > 0
           => /\ isTraveling(position) <=> journey.acc < d
              /\ journey.acc >= d => getCurrentLocation(position) = journey.target
              /\ position.type = "SpaceShipObserver"
                 => position.elapsed = Min(d, journey.acc)

\* C22 witness: at a negative rate, with JDay held at the lower limit, a
\* journey of 20 seconds has arrived after 20 seconds of ticks.
C22_Witness ==
    /\ timeSpeed = RatNeg(JD_DAY) /\ JDay = T_MIN
    /\ lastCall.op = "update" /\ lastCall.pre = T_MIN
    /\ journey.active /\ ~journey.sameBody /\ journey.acc = 20
    /\ isTraveling(lastCall.prePosition)
    /\ ~isTraveling(position)
    /\ getCurrentLocation(position) = journey.target
\* C23: a moveObserverTo step, instantaneous or not, changes the observer
\* and emits locationChanged(target), and leaves JDay, the time rate and
\* every transform matrix as they were (mat is fixed by matDerivedFrom):
\* until the next tick the matrices are those of the observer before the
\* move.
C23_MoveLeavesTimeAndMatrices ==
    [][lastCall'.op = "moveObserverTo"
       => /\ JDay' = JDay
          /\ timeSpeed' = timeSpeed
          /\ matDerivedFrom' = matDerivedFrom
          /\ signals' = <<lastCall'.target>>
          /\ position' = moveObserverToOf(position, lastCall'.target,
                                          lastCall'.duration,
                                          lastCall'.durationIfPlanetChange)
          /\ UNCHANGED <<useGPS, lastGPSLocation, selected, flagTracking>>]_vars

\* C23 witness: after a tick, a move has changed the observer while the
\* matrices are still those of the observer and the time of that tick.
C23_Witness ==
    /\ lastCall.op = "moveObserverTo"
    /\ position /= lastCall.pre
    /\ matDerivedFrom.position = lastCall.pre
    /\ matDerivedFrom.position /= position
    /\ matDerivedFrom.JDay = JDay /\ JDay /= J2000
====
